---- MODULE Spec2Model ----
(***************************************************************************)
(* State-machine model of src/app.py: the tasks table of tasks.db, the     *)
(* handlers /add, /delete/{id}, /move/{id} that write it, the scoring      *)
(* function score_task, and the handlers / and /api/today that read the    *)
(* table, statement by statement and clock reading by clock reading.       *)
(*                                                                         *)
(* Text values (due_date, created_at, done_at, the priority form field)    *)
(* are sequences of one-character strings, so that parsing, formatting and *)
(* lower-casing are computed and not assumed.  Status names are only ever  *)
(* compared for equality by the code and are TLA+ strings.                 *)
(***************************************************************************)
EXTENDS Integers, Sequences, FiniteSets, TLC

VARIABLES
    tasks,      \* the rows of table tasks: id -> row
    seq,        \* sqlite_sequence entry of tasks: the largest id ever assigned
    clock,      \* the system clock: [date |-> <<y, m, d>>, hour |-> h]
    resp,       \* the response of the last handled request
    last,       \* the last handled request: its handler and the rows its statement wrote
    assigned,   \* history: every id an INSERT has ever assigned
    sc_in,      \* arguments of a score_task call
    sc_out,     \* its return value
    ft,         \* the fetch_today call in progress: its locals and its position
    ix,         \* the index call in progress: its locals and its position
    cx          \* per concurrent caller: the write handler it is in and its locals

vars == <<tasks, seq, clock, resp, last, assigned, sc_in, sc_out, ft, ix, cx>>

---------------------------------------------------------------------------
(* Bounds of the model *)

MaxSeq == 2         \* INSERTs explored
MaxTicks == 1       \* clock steps explored

---------------------------------------------------------------------------
(* Text *)

Digits == {"0", "1", "2", "3", "4", "5", "6", "7", "8", "9"}

DigitVal(c) ==
    CASE c = "0" -> 0 [] c = "1" -> 1 [] c = "2" -> 2 [] c = "3" -> 3
      [] c = "4" -> 4 [] c = "5" -> 5 [] c = "6" -> 6 [] c = "7" -> 7
      [] c = "8" -> 8 [] c = "9" -> 9

DigitChar(n) == <<"0", "1", "2", "3", "4", "5", "6", "7", "8", "9">>[n + 1]

IsDigits(s) == \A i \in DOMAIN s : s[i] \in Digits

RECURSIVE Num(_)
Num(s) == IF s = <<>> THEN 0
          ELSE 10 * Num(SubSeq(s, 1, Len(s) - 1)) + DigitVal(s[Len(s)])

Pad2(n) == <<DigitChar(n \div 10), DigitChar(n % 10)>>

Pad4(n) == <<DigitChar(n \div 1000), DigitChar((n \div 100) % 10),
             DigitChar((n \div 10) % 10), DigitChar(n % 10)>>

\* str.lower() on the letters the model's inputs use
LowerChar(c) ==
    CASE c = "L" -> "l" [] c = "O" -> "o" [] c = "W" -> "w" [] c = "M" -> "m"
      [] c = "I" -> "i" [] c = "D" -> "d" [] c = "H" -> "h" [] c = "G" -> "g"
      [] c = "U" -> "u" [] c = "R" -> "r" [] c = "E" -> "e" [] c = "N" -> "n"
      [] c = "T" -> "t"
      [] OTHER -> c

\* the lookup without .lower()
Lower_Identity(s) == s

Lower(s) == [i \in DOMAIN s |-> LowerChar(s[i])]

---------------------------------------------------------------------------
(* Calendar: datetime.date *)

IsLeap(y) == (y % 4 = 0) /\ ((y % 100 # 0) \/ (y % 400 = 0))

DaysInMonth(y, m) ==
    IF m = 2 THEN (IF IsLeap(y) THEN 29 ELSE 28)
    ELSE IF m \in {4, 6, 9, 11} THEN 30 ELSE 31

DaysBeforeMonth(y, m) ==
    <<0, 31, 59, 90, 120, 151, 181, 212, 243, 273, 304, 334>>[m]
    + (IF m > 2 /\ IsLeap(y) THEN 1 ELSE 0)

DaysBeforeYear(y) ==
    (y - 1) * 365 + ((y - 1) \div 4) - ((y - 1) \div 100) + ((y - 1) \div 400)

\* date.toordinal(); (a - b).days is ToOrdinal(a) - ToOrdinal(b)
ToOrdinal(dt) == DaysBeforeYear(dt[1]) + DaysBeforeMonth(dt[1], dt[2]) + dt[3]

\* a field check without the calendar: any day up to 31 in any month
ValidDate_NoCalendar(y, m, d) == y \in 1..9999 /\ m \in 1..12 /\ d \in 1..31

ValidDate(y, m, d) ==
    /\ y \in 1..9999
    /\ m \in 1..12
    /\ d \in 1..DaysInMonth(y, m)

\* the result of a parse that raises ValueError
ValueError == <<0, 0, 0>>

---------------------------------------------------------------------------
(* Parsing and formatting of dates and timestamps *)

MonthField(f) == Len(f) \in {1, 2} /\ IsDigits(f) /\ Num(f) \in 1..12

DayField(f) ==
    \/ Len(f) \in {1, 2} /\ IsDigits(f) /\ Num(f) \in 1..31
    \/ Len(f) = 2 /\ f[1] = " " /\ f[2] \in Digits \ {"0"}

DayNum(f) == IF f[1] = " " THEN DigitVal(f[2]) ELSE Num(f)

\* datetime.strptime(s, "%Y-%m-%d").date(): four digits, "-", a month of one
\* or two digits, "-", a day of one or two digits, nothing after it, and the
\* three numbers a date of the calendar; ValueError otherwise.
strptime(s) ==
    LET n == Len(s) IN
    IF n < 8 THEN ValueError
    ELSE IF ~IsDigits(SubSeq(s, 1, 4)) \/ s[5] # "-" THEN ValueError
    ELSE LET dashes == {i \in 6..n : s[i] = "-"} IN
         IF dashes = {} THEN ValueError
         ELSE LET k == CHOOSE i \in dashes : \A j \in dashes : i <= j
                  mf == SubSeq(s, 6, k - 1)
                  df == SubSeq(s, k + 1, n)
              IN  IF ~MonthField(mf) \/ ~DayField(df) THEN ValueError
                  ELSE LET y == Num(SubSeq(s, 1, 4))
                           m == Num(mf)
                           d == DayNum(df)
                       IN  IF ValidDate(y, m, d) THEN <<y, m, d>> ELSE ValueError

\* datetime.isoformat(timespec="seconds") of a clock reading
isoformat(t) ==
    Pad4(t.date[1]) \o <<"-">> \o Pad2(t.date[2]) \o <<"-">> \o Pad2(t.date[3])
    \o <<"T">> \o Pad2(t.hour) \o <<":", "0", "0", ":", "0", "0">>

\* the time part HH[:MM[:SS]] of an ISO timestamp
IsoTime(f) ==
    /\ Len(f) \in {2, 5, 8}
    /\ IsDigits(SubSeq(f, 1, 2)) /\ Num(SubSeq(f, 1, 2)) < 24
    /\ Len(f) >= 5 => /\ f[3] = ":"
                      /\ IsDigits(SubSeq(f, 4, 5)) /\ Num(SubSeq(f, 4, 5)) < 60
    /\ Len(f) = 8 => /\ f[6] = ":"
                     /\ IsDigits(SubSeq(f, 7, 8)) /\ Num(SubSeq(f, 7, 8)) < 60

\* datetime.fromisoformat(s).date(): YYYY-MM-DD, alone or followed by one
\* separator character and a time; ValueError otherwise.
fromisoformat(s) ==
    LET n == Len(s) IN
    IF n < 10 \/ n = 11 THEN ValueError
    ELSE IF \/ ~IsDigits(SubSeq(s, 1, 4)) \/ s[5] # "-"
            \/ ~IsDigits(SubSeq(s, 6, 7)) \/ s[8] # "-"
            \/ ~IsDigits(SubSeq(s, 9, 10))
         THEN ValueError
    ELSE IF n > 10 /\ ~IsoTime(SubSeq(s, 12, n)) THEN ValueError
    ELSE LET y == Num(SubSeq(s, 1, 4))
             m == Num(SubSeq(s, 6, 7))
             d == Num(SubSeq(s, 9, 10))
         IN  IF ValidDate(y, m, d) THEN <<y, m, d>> ELSE ValueError

---------------------------------------------------------------------------
(* The clock *)

\* the first clock reading of the model
Epoch == [date |-> <<2024, 2, 28>>, hour |-> 12]

\* clock steps since Epoch, twelve hours each
Elapsed(t) == (ToOrdinal(t.date) - ToOrdinal(Epoch.date)) * 2 + (t.hour \div 12) - 1

NextDay(dt) ==
    IF dt[3] < DaysInMonth(dt[1], dt[2]) THEN <<dt[1], dt[2], dt[3] + 1>>
    ELSE IF dt[2] < 12 THEN <<dt[1], dt[2] + 1, 1>>
    ELSE <<dt[1] + 1, 1, 1>>

\* datetime.now()
now == clock

\* date.today()
today == clock.date

\* time passes: twelve hours
Tick ==
    /\ clock' = IF clock.hour < 12 THEN [clock EXCEPT !.hour = 12]
                ELSE [date |-> NextDay(clock.date), hour |-> 0]
    /\ UNCHANGED <<tasks, seq, resp, last, assigned, sc_in, sc_out, ft, ix, cx>>

---------------------------------------------------------------------------
(* The tasks table *)

\* SQL NULL
Null == <<"NULL">>

PRIORITY_MAP ==
    (<<"l", "o", "w">> :> 1) @@ (<<"m", "i", "d">> :> 2) @@ (<<"h", "i", "g", "h">> :> 3)

STATUSES == <<"todo", "pending", "progress", "done">>

\* no membership test: every status is taken as it is
InStatuses_Any(status) == TRUE

InStatuses(status) == \E i \in DOMAIN STATUSES : STATUSES[i] = status

\* dict.get(key, default)
DictGet(dict, key, default) == IF key \in DOMAIN dict THEN dict[key] ELSE default

\* the largest rowid in the table, 0 when it is empty
MaxRowid ==
    IF DOMAIN tasks = {} THEN 0
    ELSE CHOOSE i \in DOMAIN tasks : \A j \in DOMAIN tasks : j <= i

\* rowid choice of a table without AUTOINCREMENT
NextRowidNoAutoincrement == MaxRowid + 1

\* id INTEGER PRIMARY KEY AUTOINCREMENT: one more than the largest id the
\* table has ever held
NextRowid == (IF seq > MaxRowid THEN seq ELSE MaxRowid) + 1

\* INSERT INTO tasks (title, due_date, priority, created_at, status, done)
\* VALUES (?, ?, ?, ?, ?, 0); done_at takes its default NULL
Insert(title, due_date, p, created_at, st) ==
    /\ seq' = NextRowid
    /\ assigned' = assigned \cup {NextRowid}
    /\ tasks' = tasks @@ (NextRowid :>
                    [title |-> title, due_date |-> due_date, priority |-> p,
                     created_at |-> created_at, done |-> 0, done_at |-> Null,
                     status |-> st])

\* DELETE FROM tasks WHERE id=?
Delete(task_id) ==
    /\ UNCHANGED <<seq, assigned>>
    /\ tasks' = [i \in DOMAIN tasks \ {task_id} |-> tasks[i]]

\* the UPDATE without its WHERE: every row is written
Update_NoWhere(task_id, st, done, done_at) ==
    /\ UNCHANGED <<seq, assigned>>
    /\ tasks' = [i \in DOMAIN tasks |->
                    [tasks[i] EXCEPT !.status = st, !.done = done,
                                     !.done_at = done_at]]

\* an UPDATE that sets status alone, done and done_at being left to a
\* statement of a later transaction
Update_StatusAlone(task_id, st, done, done_at) ==
    /\ UNCHANGED <<seq, assigned>>
    /\ tasks' = [i \in DOMAIN tasks |->
                    IF i = task_id THEN [tasks[i] EXCEPT !.status = st]
                    ELSE tasks[i]]

\* UPDATE tasks SET status=?, done=?, done_at=? WHERE id=?
Update(task_id, st, done, done_at) ==
    /\ UNCHANGED <<seq, assigned>>
    /\ tasks' = [i \in DOMAIN tasks |->
                    IF i = task_id
                    THEN [tasks[i] EXCEPT !.status = st, !.done = done,
                                          !.done_at = done_at]
                    ELSE tasks[i]]

---------------------------------------------------------------------------
(* Scoring *)

\* the lookup with default 0
status_w_UnknownZero(status) ==
    CASE status = "progress" -> 18
      [] status = "todo" -> 10
      [] status = "pending" -> 2
      [] status = "done" -> 0 - 9999
      [] OTHER -> 0

\* the status weight: the dictionary lookup with default 10
status_w(status) ==
    CASE status = "progress" -> 18
      [] status = "todo" -> 10
      [] status = "pending" -> 2
      [] status = "done" -> 0 - 9999
      [] OTHER -> 10

\* the due weight with d <= 0 for d < 0: a task due today counts as overdue
due_w_OverdueAtZero(d) == IF d <= 0 THEN 35 ELSE (IF 20 - d > 0 THEN 20 - d ELSE 0)

\* the due weight of d days until due
due_w(d) == IF d < 0 THEN 35 ELSE (IF 20 - d > 0 THEN 20 - d ELSE 0)

\* the priority weight
pri_w(priority) == priority * 8

\* the aging weight without min(10, ...): it grows with every day
age_w_NoCap(created_at, today_) ==
    LET created == fromisoformat(created_at) IN
    IF created = ValueError THEN 0
    ELSE LET age_days == ToOrdinal(today_) - ToOrdinal(created)
         IN  IF age_days > 0 THEN age_days ELSE 0

\* the aging weight; a created_at that does not parse counts 0
age_w(created_at, today_) ==
    LET created == fromisoformat(created_at) IN
    IF created = ValueError THEN 0
    ELSE LET age_days == ToOrdinal(today_) - ToOrdinal(created)
             floor0 == IF age_days > 0 THEN age_days ELSE 0
         IN  IF floor0 < 10 THEN floor0 ELSE 10

Returned(v) == [state |-> "returned", value |-> v]
Raised == [state |-> "raised", value |-> 0]

\* score_task reads the clock once, for today; a due_date_str that does not
\* parse raises ValueError out of the function
score_task(due_date_str, priority, status, created_at) ==
    LET due == strptime(due_date_str) IN
    IF due = ValueError THEN Raised
    ELSE LET d == ToOrdinal(due) - ToOrdinal(today)
         IN  Returned(status_w(status) + due_w(d) + pri_w(priority)
                      + age_w(created_at, today))

---------------------------------------------------------------------------
(* The handlers *)

RedirectHome == "303 /"
RedirectBadDate == "303 /?error=bad_date"
JsonOk == "200 ok"

\* cursor.rowcount of a statement WHERE id=?
RowCount(task_id) == IF task_id \in DOMAIN tasks THEN 1 ELSE 0

\* the status of the row a statement WHERE id=? finds, "" when it finds none
StatusOf(task_id) == IF task_id \in DOMAIN tasks THEN tasks[task_id].status ELSE ""

\* the record of a handled request: the handler, the form or body fields it
\* was sent, the rows its statement wrote and the status the row had before
Request(op, due_date, priority, status, rowcount, was) ==
    [op |-> op, due_date |-> due_date, priority |-> priority, status |-> status,
     rowcount |-> rowcount, was |-> was]

\* add_task that does not read the status field: every task starts as todo
add_task_StatusIgnored(title, due_date, priority, status) ==
    /\ last' = Request("add", due_date, priority, status,
                        IF strptime(due_date) = ValueError THEN 0 ELSE 1, "")
    /\ IF strptime(due_date) = ValueError
       THEN /\ resp' = RedirectBadDate
            /\ UNCHANGED <<tasks, seq, assigned>>
       ELSE LET p == DictGet(PRIORITY_MAP, Lower(priority), 2)
            IN  /\ resp' = RedirectHome
                /\ Insert(title, due_date, p, isoformat(now), "todo")
    /\ UNCHANGED <<clock, sc_in, sc_out, ft, ix, cx>>

\* POST /add
add_task(title, due_date, priority, status) ==
    /\ last' = Request("add", due_date, priority, status,
                        IF strptime(due_date) = ValueError THEN 0 ELSE 1, "")
    /\ IF strptime(due_date) = ValueError
       THEN /\ resp' = RedirectBadDate
            /\ UNCHANGED <<tasks, seq, assigned>>
       ELSE LET p == DictGet(PRIORITY_MAP, Lower(priority), 2)
                st == IF InStatuses(status) THEN status ELSE "todo"
            IN  /\ resp' = RedirectHome
                /\ Insert(title, due_date, p, isoformat(now), st)
    /\ UNCHANGED <<clock, sc_in, sc_out, ft, ix, cx>>

\* delete_task that answers 404 when the id names no row
delete_task_NotFound(task_id) ==
    /\ last' = Request("delete", <<>>, <<>>, "", RowCount(task_id), StatusOf(task_id))
    /\ resp' = IF task_id \in DOMAIN tasks THEN RedirectHome ELSE "404"
    /\ Delete(task_id)
    /\ UNCHANGED <<clock, sc_in, sc_out, ft, ix, cx>>

\* POST /delete/{task_id}
delete_task(task_id) ==
    /\ last' = Request("delete", <<>>, <<>>, "", RowCount(task_id), StatusOf(task_id))
    /\ resp' = RedirectHome
    /\ Delete(task_id)
    /\ UNCHANGED <<clock, sc_in, sc_out, ft, ix, cx>>

\* move_task with done_at=COALESCE(done_at, ?): a task already done keeps its
\* earlier done_at
move_task_KeepsDoneAt(task_id, status) ==
    /\ last' = Request("move", <<>>, <<>>, status, RowCount(task_id), StatusOf(task_id))
    /\ resp' = JsonOk
    /\ LET st == IF InStatuses(status) THEN status ELSE "todo"
       IN  IF st = "done"
           THEN Update(task_id, "done", 1,
                       IF task_id \in DOMAIN tasks /\ tasks[task_id].done_at # Null
                       THEN tasks[task_id].done_at ELSE isoformat(now))
           ELSE Update(task_id, st, 0, Null)
    /\ UNCHANGED <<clock, sc_in, sc_out, ft, ix, cx>>

\* POST /move/{task_id}
move_task(task_id, status) ==
    /\ last' = Request("move", <<>>, <<>>, status, RowCount(task_id), StatusOf(task_id))
    /\ resp' = JsonOk
    /\ LET st == IF InStatuses(status) THEN status ELSE "todo"
       IN  IF st = "done"
           THEN Update(task_id, "done", 1, isoformat(now))
           ELSE Update(task_id, st, 0, Null)
    /\ UNCHANGED <<clock, sc_in, sc_out, ft, ix, cx>>

---------------------------------------------------------------------------
(* The write handlers of concurrent callers *)

\* the requests in progress at one time: FastAPI runs the handlers, plain
\* functions, in the threads of a pool
Callers == {"a", "b"}

IdleCall ==
    [pc |-> "idle", op |-> "", task_id |-> 0, title |-> <<>>, due_date |-> <<>>,
     p |-> 0, st |-> "", now |-> <<>>]

NoCalls == [c \in Callers |-> IdleCall]

\* add_task up to its with block: the form is checked, p, st and now are set
add_task_begin(c, title, due_date, priority, status) ==
    /\ cx[c].pc = "idle"
    /\ IF strptime(due_date) = ValueError
       THEN /\ resp' = RedirectBadDate
            /\ last' = Request("add", due_date, priority, status, 0, "")
            /\ UNCHANGED cx
       ELSE /\ cx' = [cx EXCEPT ![c] =
                        [pc |-> "with", op |-> "add", task_id |-> 0,
                         title |-> title, due_date |-> due_date,
                         p |-> DictGet(PRIORITY_MAP, Lower(priority), 2),
                         st |-> IF InStatuses(status) THEN status ELSE "todo",
                         now |-> isoformat(now)]]
            /\ UNCHANGED <<resp, last>>
    /\ UNCHANGED <<tasks, seq, assigned, clock, sc_in, sc_out, ft, ix>>

\* the with block of add_task, one transaction: INSERT and commit
add_task_commit(c) ==
    /\ cx[c].pc = "with" /\ cx[c].op = "add"
    /\ last' = Request("add", cx[c].due_date, <<>>, cx[c].st, 1, "")
    /\ resp' = RedirectHome
    /\ Insert(cx[c].title, cx[c].due_date, cx[c].p, cx[c].now, cx[c].st)
    /\ cx' = [cx EXCEPT ![c] = IdleCall]
    /\ UNCHANGED <<clock, sc_in, sc_out, ft, ix>>

\* delete_task has no statement before its with block
delete_task_begin(c, task_id) ==
    /\ cx[c].pc = "idle"
    /\ cx' = [cx EXCEPT ![c] = [IdleCall EXCEPT !.pc = "with", !.op = "delete",
                                                !.task_id = task_id]]
    /\ UNCHANGED <<tasks, seq, assigned, clock, resp, last, sc_in, sc_out, ft, ix>>

\* the with block of delete_task, one transaction: DELETE and commit
delete_task_commit(c) ==
    /\ cx[c].pc = "with" /\ cx[c].op = "delete"
    /\ last' = Request("delete", <<>>, <<>>, "", RowCount(cx[c].task_id),
                        StatusOf(cx[c].task_id))
    /\ resp' = RedirectHome
    /\ Delete(cx[c].task_id)
    /\ cx' = [cx EXCEPT ![c] = IdleCall]
    /\ UNCHANGED <<clock, sc_in, sc_out, ft, ix>>

\* move_task up to its with block: st and now are set
move_task_begin(c, task_id, status) ==
    /\ cx[c].pc = "idle"
    /\ cx' = [cx EXCEPT ![c] =
                [IdleCall EXCEPT !.pc = "with", !.op = "move", !.task_id = task_id,
                                 !.st = IF InStatuses(status) THEN status ELSE "todo",
                                 !.now = isoformat(now)]]
    /\ UNCHANGED <<tasks, seq, assigned, clock, resp, last, sc_in, sc_out, ft, ix>>

\* the with block of move_task, one transaction: UPDATE and commit
move_task_commit(c) ==
    /\ cx[c].pc = "with" /\ cx[c].op = "move"
    /\ last' = Request("move", <<>>, <<>>, cx[c].st, RowCount(cx[c].task_id),
                        StatusOf(cx[c].task_id))
    /\ resp' = JsonOk
    /\ IF cx[c].st = "done"
       THEN Update(cx[c].task_id, "done", 1, cx[c].now)
       ELSE Update(cx[c].task_id, cx[c].st, 0, Null)
    /\ cx' = [cx EXCEPT ![c] = IdleCall]
    /\ UNCHANGED <<clock, sc_in, sc_out, ft, ix>>

---------------------------------------------------------------------------
(* fetch_today: the today ranking, one clock reading per step *)

\* a row as the cursor returns it: the columns of the table, id among them
Row(i) ==
    [id |-> i, title |-> tasks[i].title, due_date |-> tasks[i].due_date,
     priority |-> tasks[i].priority, created_at |-> tasks[i].created_at,
     done |-> tasks[i].done, done_at |-> tasks[i].done_at,
     status |-> tasks[i].status]

\* ORDER BY id ASC
RECURSIVE AscendingIds(_)
AscendingIds(S) ==
    IF S = {} THEN <<>>
    ELSE LET m == CHOOSE x \in S : \A y \in S : x <= y
         IN  <<m>> \o AscendingIds(S \ {m})

\* the SELECT without its WHERE: every row of the table
SelectOpen_NoWhere ==
    LET ids == AscendingIds(DOMAIN tasks)
    IN  [k \in 1..Len(ids) |-> Row(ids[k])]

\* SELECT * FROM tasks WHERE status != 'done' ORDER BY id ASC
SelectOpen ==
    LET ids == AscendingIds({i \in DOMAIN tasks : tasks[i].status # "done"})
    IN  [k \in 1..Len(ids) |-> Row(ids[k])]

\* due_days(r): the clock is read when the key is computed
due_days(r) == ToOrdinal(strptime(r.due_date)) - ToOrdinal(today)

\* the key without due_days: score, then priority, then id
SortKey_NoDueDays(s, d, r) == <<0 - s, 0 - r.priority, r.id>>

\* the sort key of the entry (s, r), d being due_days(r)
SortKey(s, d, r) == <<0 - s, d, 0 - r.priority, r.id>>

\* a < b for two tuples of integers of one length, as Python compares them
TupleLess(a, b) ==
    \E k \in 1..Len(a) : a[k] < b[k] /\ \A j \in 1..(k - 1) : a[j] = b[j]

\* x put into the sorted list s behind every entry whose key is not greater
RECURSIVE Insort(_, _)
Insort(s, x) ==
    IF s = <<>> THEN <<x>>
    ELSE IF TupleLess(x.key, Head(s).key) THEN <<x>> \o s
    ELSE <<Head(s)>> \o Insort(Tail(s), x)

\* list.sort(key=...): stable, on the keys computed beforehand
RECURSIVE SortByKey(_)
SortByKey(s) ==
    IF s = <<>> THEN <<>>
    ELSE Insort(SortByKey(SubSeq(s, 1, Len(s) - 1)), s[Len(s)])

\* s[:top]: a negative top counts from the end of the list
SliceTo(s, top) ==
    IF top >= 0 THEN SubSeq(s, 1, IF top < Len(s) THEN top ELSE Len(s))
    ELSE SubSeq(s, 1, Len(s) + top)

\* no fetch_today call in progress
NoFetch ==
    [pc |-> "idle", top |-> 0, began |-> <<0, 0, 0>>, rows |-> <<>>,
     scores |-> <<>>, keys |-> <<>>, out |-> <<>>]


\* the position after the rows were fetched or one more value was computed
Position(rows, scores, keys) ==
    IF Len(scores) < Len(rows) THEN "score"
    ELSE IF Len(keys) < Len(rows) THEN "key"
    ELSE "return"

\* fetch_today(top) up to the end of its with block: the rows are fetched.
\* began is history: the date of the clock when the call began.
fetch_today(top) ==
    /\ ft.pc = "idle"
    /\ ft' = [pc |-> Position(SelectOpen, <<>>, <<>>), top |-> top,
              began |-> today, rows |-> SelectOpen, scores |-> <<>>,
              keys |-> <<>>, out |-> <<>>]
    /\ UNCHANGED <<tasks, seq, clock, resp, last, assigned, sc_in, sc_out, cx>>

\* one turn of the loop over rows: score_task on the next row
fetch_today_score ==
    /\ ft.pc = "score"
    /\ LET r == ft.rows[Len(ft.scores) + 1]
           s == score_task(r.due_date, r.priority, r.status, r.created_at)
       IN  IF s = Raised THEN ft' = [ft EXCEPT !.pc = "raised"]
           ELSE ft' = [ft EXCEPT !.scores = Append(@, s.value),
                                 !.pc = Position(ft.rows, Append(ft.scores, s.value),
                                                 ft.keys)]
    /\ UNCHANGED <<tasks, seq, clock, resp, last, assigned, sc_in, sc_out, ix, cx>>

\* scored.sort computes the key of the next entry: due_days reads the clock
fetch_today_key ==
    /\ ft.pc = "key"
    /\ LET r == ft.rows[Len(ft.keys) + 1]
       IN  ft' = [ft EXCEPT !.keys = Append(@, due_days(r)),
                            !.pc = Position(ft.rows, ft.scores,
                                            Append(ft.keys, due_days(r)))]
    /\ UNCHANGED <<tasks, seq, clock, resp, last, assigned, sc_in, sc_out, ix, cx>>

\* the list scored, each entry (s, r) with the key computed for it
Keyed(rows, scores, keys) ==
    [k \in 1..Len(rows) |-> [key |-> SortKey(scores[k], keys[k], rows[k]),
                             entry |-> <<scores[k], rows[k]>>]]

\* the entries of a list of keyed entries
Entries(keyed) == [k \in 1..Len(keyed) |-> keyed[k].entry]

\* scored.sort orders the entries by their keys; return scored[:top]
fetch_today_return ==
    /\ ft.pc = "return"
    /\ LET scored == Entries(SortByKey(Keyed(ft.rows, ft.scores, ft.keys)))
       IN  ft' = [ft EXCEPT !.pc = "done", !.out = SliceTo(scored, ft.top)]
    /\ UNCHANGED <<tasks, seq, clock, resp, last, assigned, sc_in, sc_out, ix, cx>>

\* GET /api/today?top=: the call of fetch_today
api_today(top) ==
    /\ ix.pc = "idle"
    /\ fetch_today(top)
    /\ UNCHANGED ix

\* GET /api/today: the ranking is rendered and sent
api_today_respond ==
    /\ ix.pc = "idle"
    /\ ft.pc = "done"
    /\ ft' = NoFetch
    /\ resp' = JsonOk
    /\ last' = Request("today", <<>>, <<>>, "", 0, "")
    /\ UNCHANGED <<tasks, seq, clock, assigned, sc_in, sc_out, ix, cx>>

---------------------------------------------------------------------------
(* index: the board, one SELECT per column, and the today ranking *)

\* the byte of a character of a stored due_date: a digit or "-"
CharCode(c) == IF c = "-" THEN 45 ELSE 48 + DigitVal(c)

\* a < b for two TEXT values under SQLite's BINARY collation: the bytes are
\* compared, and of two texts that agree on the shorter one's length the
\* shorter is less
TextLess(a, b) ==
    \/ \E k \in 1..Len(a) :
            /\ k <= Len(b)
            /\ CharCode(a[k]) < CharCode(b[k])
            /\ \A j \in 1..(k - 1) : a[j] = b[j]
    \/ Len(a) < Len(b) /\ \A j \in 1..Len(a) : a[j] = b[j]

\* row a comes before row b under ORDER BY due_date ASC, priority DESC, id ASC
OrderByLess(a, b) ==
    \/ TextLess(a.due_date, b.due_date)
    \/ a.due_date = b.due_date /\ a.priority > b.priority
    \/ a.due_date = b.due_date /\ a.priority = b.priority /\ a.id < b.id

\* the rows of the ids in S in the order of ORDER BY
RECURSIVE OrderBy(_)
OrderBy(S) ==
    IF S = {} THEN <<>>
    ELSE LET m == CHOOSE x \in S : \A y \in S \ {x} : OrderByLess(Row(x), Row(y))
         IN  <<Row(m)>> \o OrderBy(S \ {m})

\* the SELECT without its WHERE: every row in every column
fetch_tasks_by_status_NoWhere(status) == OrderBy(DOMAIN tasks)

\* SELECT * FROM tasks WHERE status=? ORDER BY due_date ASC, priority DESC, id ASC
fetch_tasks_by_status(status) ==
    OrderBy({i \in DOMAIN tasks : tasks[i].status = status})

\* no index call in progress
NoIndex == [pc |-> "idle", board |-> <<>>, counts |-> <<>>]

HtmlOk == "200 html"

\* one turn of the loop over STATUSES: the rows of the next column are
\* fetched and counted; the first turn begins the call
index_column ==
    /\ ix.pc \in {"idle", "columns"}
    /\ LET k == Len(ix.board) + 1
           rows == fetch_tasks_by_status(STATUSES[k])
       IN  ix' = [pc |-> IF k = Len(STATUSES) THEN "today" ELSE "columns",
                  board |-> Append(ix.board, rows),
                  counts |-> Append(ix.counts, Len(rows))]
    /\ UNCHANGED <<tasks, seq, clock, resp, last, assigned, sc_in, sc_out, ft, cx>>

\* today = fetch_today(top=5): the call
index_today ==
    /\ ix.pc = "today"
    /\ fetch_today(5)
    /\ UNCHANGED ix

\* GET /: the template is rendered and sent
index_respond ==
    /\ ix.pc = "today"
    /\ ft.pc = "done"
    /\ ix' = NoIndex
    /\ ft' = NoFetch
    /\ resp' = HtmlOk
    /\ last' = Request("index", <<>>, <<>>, "", 0, "")
    /\ UNCHANGED <<tasks, seq, clock, assigned, sc_in, sc_out, cx>>

---------------------------------------------------------------------------
(* Requests explored *)

Titles == {<<"T", "1">>}

D_2024_03_01 == <<"2", "0", "2", "4", "-", "0", "3", "-", "0", "1">>
D_2024_2_27 == <<"2", "0", "2", "4", "-", "2", "-", "2", "7">>
D_2024_02_30 == <<"2", "0", "2", "4", "-", "0", "2", "-", "3", "0">>
D_01_03_2024 == <<"0", "1", "/", "0", "3", "/", "2", "0", "2", "4">>

\* due_date form values: two that parse and two that do not
DueInputs == {D_2024_03_01, D_2024_2_27, D_2024_02_30, D_01_03_2024}

\* priority form values
PriorityInputs ==
    { <<"l", "o", "w">>, <<"L", "O", "W">>, <<"M", "i", "d">>, <<"H", "i", "g", "h">>,
      <<"u", "r", "g", "e", "n", "t">>, <<>> }

\* status values: the four names and one that is none of them
StatusInputs == {"todo", "pending", "progress", "done", "archived"}

\* ids of requests: the ids the table can hold and one it never holds
IdInputs == 1..(MaxSeq + 1)

NoRequest == Request("none", <<>>, <<>>, "", 0, "")
NoCall == [due_date_str |-> <<>>, priority |-> 0, status |-> "", created_at |-> <<>>]
NoScore == [state |-> "none", value |-> 0]

\* the state after init_db() on a new tasks.db
Init ==
    /\ tasks = <<>>
    /\ seq = 0
    /\ assigned = {}
    /\ clock = Epoch
    /\ resp = "none"
    /\ last = NoRequest
    /\ sc_in = NoCall
    /\ sc_out = NoScore
    /\ ft = NoFetch
    /\ ix = NoIndex
    /\ cx = NoCalls

\* Requests over time: every status, one due date that parses and one that
\* does not, one priority.
TimedDueInputs == {D_2024_03_01, D_2024_02_30}

TimedPriorityInputs == {<<"h", "i", "g", "h">>}

Next ==
    \/ /\ seq < MaxSeq
       /\ \E title \in Titles, due_date \in TimedDueInputs,
             priority \in TimedPriorityInputs, status \in StatusInputs :
             add_task(title, due_date, priority, status)
    \/ \E task_id \in IdInputs : delete_task(task_id)
    \/ \E task_id \in IdInputs, status \in StatusInputs : move_task(task_id, status)
    \/ /\ Elapsed(clock) < MaxTicks
       /\ Tick

Spec == Init /\ [][Next]_vars

\* Requests at one instant: every due date and every priority of the inputs,
\* three statuses.
FormStatusInputs == {"todo", "pending", "archived"}

NextForm ==
    \/ /\ seq < MaxSeq
       /\ \E title \in Titles, due_date \in DueInputs,
             priority \in PriorityInputs, status \in FormStatusInputs :
             add_task(title, due_date, priority, status)
    \/ \E task_id \in IdInputs : delete_task(task_id)

SpecForm == Init /\ [][NextForm]_vars

---------------------------------------------------------------------------
(* One call of score_task on arguments and a clock reading drawn from sets *)

DateStr(dt) == Pad4(dt[1]) \o <<"-">> \o Pad2(dt[2]) \o <<"-">> \o Pad2(dt[3])

\* due dates from 2024-02-20 to 2024-03-25, one written without padding and
\* one that does not parse
ScoreDues ==
    {DateStr(<<2024, 2, d>>) : d \in 20..29} \cup {DateStr(<<2024, 3, d>>) : d \in 1..25}
    \cup {D_2024_2_27, D_2024_02_30}

ScoreClocks == {Epoch, [date |-> <<2024, 3, 1>>, hour |-> 0]}

\* created_at values: timestamps around the clock readings, a bare date, and
\* two texts that are no ISO timestamp
ScoreCreated ==
    { isoformat(Epoch),
      isoformat([date |-> <<2024, 2, 24>>, hour |-> 12]),
      isoformat([date |-> <<2024, 2, 1>>, hour |-> 0]),
      isoformat([date |-> <<2024, 3, 1>>, hour |-> 0]),
      DateStr(<<2024, 2, 27>>),
      <<"y", "e", "s", "t", "e", "r", "d", "a", "y">>,
      <<>> }

ScoreStatuses == StatusInputs

InitScore ==
    /\ tasks = <<>>
    /\ seq = 0
    /\ assigned = {}
    /\ clock \in ScoreClocks
    /\ resp = "none"
    /\ last = NoRequest
    /\ sc_in \in [due_date_str : ScoreDues, priority : 1..3,
                  status : ScoreStatuses, created_at : ScoreCreated]
    /\ sc_out = NoScore
    /\ ft = NoFetch
    /\ ix = NoIndex
    /\ cx = NoCalls

ScoreCall ==
    /\ sc_out = NoScore
    /\ sc_out' = score_task(sc_in.due_date_str, sc_in.priority, sc_in.status,
                            sc_in.created_at)
    /\ UNCHANGED <<tasks, seq, clock, resp, last, assigned, sc_in, ft, ix, cx>>

NextScore == ScoreCall

SpecScore == InitScore /\ [][NextScore]_vars

---------------------------------------------------------------------------
(* Rankings and boards of stores of many kinds, at one instant *)

D_2024_02_20 == <<"2", "0", "2", "4", "-", "0", "2", "-", "2", "0">>

\* due dates: one ahead of the clock and two behind it, one of them written
\* without padding
RankDueInputs == {D_2024_03_01, D_2024_2_27, D_2024_02_20}

RankPriorityInputs == {<<"m", "i", "d">>, <<"h", "i", "g", "h">>}

RankStatusInputs == {"todo", "progress"}

\* values of the query parameter top: negative, zero, fewer than the rows,
\* and the default
TopInputs == {0 - 1, 0, 1, 5}

\* Requests are taken one at a time: fetch_today works on the rows it has
\* fetched, so a write that arrives while it runs does not reach it.
NextRank ==
    \/ /\ seq < MaxSeq
       /\ ft.pc = "idle"
       /\ ix.pc = "idle"
       /\ \E title \in Titles, due_date \in RankDueInputs,
             priority \in RankPriorityInputs, status \in RankStatusInputs :
             add_task(title, due_date, priority, status)
    \/ \E top \in TopInputs : api_today(top)
    \/ fetch_today_score
    \/ fetch_today_key
    \/ fetch_today_return
    \/ api_today_respond
    \/ /\ ft.pc = "idle"
       /\ index_column
    \/ index_today
    \/ index_respond

SpecRank == Init /\ [][NextRank]_vars

---------------------------------------------------------------------------
(* Rankings over time: writes between rankings, clock steps at any moment *)

TodayStatusInputs == {"done", "progress"}

\* Requests that write are taken while no ranking is computed: fetch_today
\* works on the rows it has fetched.  The clock steps at any moment, between
\* any two of its readings.
NextToday ==
    \/ /\ seq < MaxSeq
       /\ ft.pc = "idle"
       /\ \E title \in Titles, priority \in TimedPriorityInputs :
             add_task(title, D_2024_03_01, priority, "todo")
    \/ /\ ft.pc = "idle"
       /\ \E task_id \in IdInputs : delete_task(task_id)
    \/ /\ ft.pc = "idle"
       /\ \E task_id \in IdInputs, status \in TodayStatusInputs :
             move_task(task_id, status)
    \/ /\ Elapsed(clock) < MaxTicks
       /\ Tick
    \/ api_today(5)
    \/ fetch_today_score
    \/ fetch_today_key
    \/ fetch_today_return
    \/ api_today_respond

SpecToday == Init /\ [][NextToday]_vars

---------------------------------------------------------------------------
(* Writes of concurrent callers, at one instant: two callers, each in one  *)
(* handler at a time, in every interleaving of their steps                 *)

RaceStatusInputs == {"done", "todo"}

NextRace ==
    \/ /\ seq + Cardinality({c \in Callers : cx[c].op = "add"}) < MaxSeq
       /\ \E c \in Callers, title \in Titles, priority \in TimedPriorityInputs :
             add_task_begin(c, title, D_2024_03_01, priority, "todo")
    \/ \E c \in Callers : add_task_commit(c)
    \/ \E c \in Callers, task_id \in IdInputs : delete_task_begin(c, task_id)
    \/ \E c \in Callers : delete_task_commit(c)
    \/ \E c \in Callers, task_id \in IdInputs, status \in RaceStatusInputs :
          move_task_begin(c, task_id, status)
    \/ \E c \in Callers : move_task_commit(c)

SpecRace == Init /\ [][NextRace]_vars

---------------------------------------------------------------------------
(* Boards rendered while another caller writes, at one instant *)

BoardStatusInputs == {"pending", "done"}

\* The writes are whole requests of another caller, taken before and between
\* the SELECTs of the board; a write after the last of them does not reach
\* the board.
NextBoard ==
    \/ /\ seq < MaxSeq
       /\ ix.pc # "today"
       /\ \E title \in Titles, priority \in TimedPriorityInputs :
             add_task(title, D_2024_03_01, priority, "todo")
    \/ /\ ix.pc # "today"
       /\ \E task_id \in IdInputs : delete_task(task_id)
    \/ /\ ix.pc # "today"
       /\ \E task_id \in IdInputs, status \in BoardStatusInputs :
             move_task(task_id, status)
    \/ index_column
    \/ index_today
    \/ fetch_today_score
    \/ fetch_today_key
    \/ fetch_today_return
    \/ index_respond

SpecBoard == Init /\ [][NextBoard]_vars

---------------------------------------------------------------------------
(* Rankings of a tasks.db that init_db found and kept: rows of any age, and *)
(* rows whose created_at was not written by add_task                        *)

\* created_at values: those of the score_task calls, and timestamps 9 and
\* 10 days before the first clock reading
AgedCreated ==
    ScoreCreated \cup { isoformat([date |-> <<2024, 2, 19>>, hour |-> 12]),
                        isoformat([date |-> <<2024, 2, 18>>, hour |-> 12]) }

AgedRows ==
    [title : Titles, due_date : {D_2024_03_01}, priority : {2},
     created_at : AgedCreated, done : {0}, done_at : {Null}, status : {"todo"}]

InitAged ==
    /\ tasks \in UNION {[1..n -> AgedRows] : n \in 0..MaxSeq}
    /\ seq = Cardinality(DOMAIN tasks)
    /\ assigned = DOMAIN tasks
    /\ clock \in ScoreClocks
    /\ resp = "none"
    /\ last = NoRequest
    /\ sc_in = NoCall
    /\ sc_out = NoScore
    /\ ft = NoFetch
    /\ ix = NoIndex
    /\ cx = NoCalls

NextAged ==
    \/ api_today(5)
    \/ fetch_today_score
    \/ fetch_today_key
    \/ fetch_today_return
    \/ api_today_respond

SpecAged == InitAged /\ [][NextAged]_vars

---------------------------------------------------------------------------
(* Properties *)

\* what the specification calls the four recognized status names
RecognizedNames == {"todo", "pending", "progress", "done"}

\* the status a requested status resolves to
Resolved(status) == IF status \in RecognizedNames THEN status ELSE "todo"

\* the ids a step adds to the table
NewIds == DOMAIN tasks' \ DOMAIN tasks

\* the step is add_task on these form fields; the first conjuncts follow from
\* the last and are there to be evaluated first
Add(title, due_date, priority, status) ==
    /\ last'.op = "add"
    /\ last'.due_date = due_date /\ last'.priority = priority /\ last'.status = status
    /\ add_task(title, due_date, priority, status)

\* the step is move_task on this id and status
Move(task_id, status) ==
    /\ last'.op = "move"
    /\ last'.status = status
    /\ move_task(task_id, status)

\* the step is delete_task on this id
Del(task_id) ==
    /\ last'.op = "delete"
    /\ delete_task(task_id)

\* C1: in every reachable state every task has done = true iff status =
\* "done", and done_at non-null iff status = "done".
C1_DoneMirrorsStatus ==
    \A i \in DOMAIN tasks :
        /\ (tasks[i].done = 1) <=> (tasks[i].status = "done")
        /\ (tasks[i].done_at # Null) <=> (tasks[i].status = "done")

\* C2: setStatus(id, s) on a task of the store, whatever its state, leaves it
\* with done = true and done_at = the instant of the call when s resolves to
\* "done", and with done = false and done_at = null otherwise.
C2_SetStatusDerivedFields ==
    [][\A task_id \in IdInputs, status \in StatusInputs :
          (task_id \in DOMAIN tasks /\ Move(task_id, status))
          => /\ task_id \in DOMAIN tasks'
             /\ IF Resolved(status) = "done"
                THEN /\ tasks'[task_id].done = 1
                     /\ tasks'[task_id].done_at = isoformat(clock)
                ELSE /\ tasks'[task_id].done = 0
                     /\ tasks'[task_id].done_at = Null]_vars

\* the only done task, created at an earlier instant, has just been moved
\* from done to done and carries the present instant as done_at
C2_Witness ==
    /\ last.op = "move" /\ last.status = "done" /\ last.was = "done"
    /\ clock # Epoch
    /\ \E i \in DOMAIN tasks :
          /\ tasks[i].created_at = isoformat(Epoch)
          /\ tasks[i].done = 1
          /\ tasks[i].done_at = isoformat(clock)
          /\ \A j \in DOMAIN tasks \ {i} : tasks[j].status # "done"

\* the due dates of the inputs that are no date written YYYY-MM-DD:
\* 2024-02-30 names no day of the calendar, 01/03/2024 is another format
BadDueInputs == {D_2024_02_30, D_01_03_2024}

\* C3: a successful create inserts one task with done = false, done_at =
\* null, the supplied status when it is one of the four names and todo
\* otherwise, and created_at = the current instant.
C3_CreateInserts ==
    [][\A title \in Titles, due_date \in TimedDueInputs,
          priority \in TimedPriorityInputs, status \in StatusInputs :
          (Add(title, due_date, priority, status) /\ resp' = RedirectHome)
          => \E i \in NewIds :
                /\ NewIds = {i}
                /\ tasks'[i].done = 0
                /\ tasks'[i].done_at = Null
                /\ tasks'[i].status = Resolved(status)
                /\ tasks'[i].created_at = isoformat(clock)]_vars

\* after the clock has moved, a create with status progress has just
\* inserted its task
C3_Witness ==
    /\ last.op = "add" /\ last.rowcount = 1 /\ last.status = "progress"
    /\ clock # Epoch
    /\ seq \in DOMAIN tasks
    /\ tasks[seq].status = "progress"
    /\ tasks[seq].created_at = isoformat(clock)
    /\ tasks[seq].done = 0 /\ tasks[seq].done_at = Null

\* C4: for a status outside the four names, create and setStatus store
\* status todo and report no error; every stored status is one of the four
\* names; setStatus(id, "archived") on a done task leaves status todo, done =
\* false, done_at = null.
C4_UnknownStatusCoerced ==
    /\ [](\A i \in DOMAIN tasks : tasks[i].status \in RecognizedNames)
    /\ [][/\ \A task_id \in IdInputs, status \in StatusInputs \ RecognizedNames :
                (task_id \in DOMAIN tasks /\ Move(task_id, status))
                => /\ resp' = JsonOk
                   /\ task_id \in DOMAIN tasks'
                   /\ tasks'[task_id].status = "todo"
                   /\ tasks'[task_id].done = 0
                   /\ tasks'[task_id].done_at = Null
          /\ \A title \in Titles, due_date \in TimedDueInputs \ BadDueInputs,
                priority \in TimedPriorityInputs,
                status \in StatusInputs \ RecognizedNames :
                Add(title, due_date, priority, status)
                => /\ resp' = RedirectHome
                   /\ \E i \in NewIds : tasks'[i].status = "todo"]_vars

\* setStatus(id, "archived") has just acted on the only task, which was done
C4_Witness ==
    /\ last.op = "move" /\ last.status = "archived" /\ last.was = "done"
    /\ resp = JsonOk
    /\ \E i \in DOMAIN tasks :
          /\ DOMAIN tasks = {i}
          /\ tasks[i].status = "todo"
          /\ tasks[i].done = 0
          /\ tasks[i].done_at = Null

\* C5: a create whose due_date is no date written YYYY-MM-DD is answered
\* with the bad_date redirect and leaves the table, and the id the next
\* insert will get, as they were.
C5_BadDateNoEffect ==
    [][\A title \in Titles, due_date \in BadDueInputs,
          priority \in PriorityInputs, status \in FormStatusInputs :
          Add(title, due_date, priority, status)
          => /\ resp' = RedirectBadDate
             /\ tasks' = tasks
             /\ seq' = seq
             /\ NextRowid' = NextRowid]_vars

\* a create with due date 2024-02-30 has just been rejected on a table
\* that holds a task
C5_Witness ==
    /\ last.op = "add" /\ last.due_date = D_2024_02_30
    /\ resp = RedirectBadDate
    /\ tasks # <<>>

\* C6: delete(id) and setStatus(id, s) on an id that is not in the table leave
\* the table unchanged and report success; so a second delete(id) changes
\* nothing and setStatus on a deleted id does not bring the task back.
C6_MissingIdNoOp ==
    [][\A task_id \in IdInputs :
          /\ (task_id \notin DOMAIN tasks /\ Del(task_id))
             => (tasks' = tasks /\ seq' = seq /\ resp' = RedirectHome)
          /\ \A status \in StatusInputs :
                (task_id \notin DOMAIN tasks /\ Move(task_id, status))
                => (tasks' = tasks /\ seq' = seq /\ resp' = JsonOk)]_vars

\* a setStatus has just acted on an id of no row while an id assigned
\* earlier is gone from the table
C6_Witness ==
    /\ last.op = "move" /\ last.rowcount = 0
    /\ resp = JsonOk
    /\ \E i \in assigned : i \notin DOMAIN tasks

\* C7: the id a create assigns was assigned by no earlier create, deleted or
\* not; a task keeps its id.
C7_IdsNeverReused ==
    [][/\ \A i \in NewIds : i \notin assigned
       /\ \A i \in DOMAIN tasks \cap DOMAIN tasks' :
             /\ tasks'[i].title = tasks[i].title
             /\ tasks'[i].created_at = tasks[i].created_at]_vars

\* a create has just assigned id 2 on a table that had become empty by
\* the deletion of task 1, the task with the highest id
C7_Witness ==
    /\ last.op = "add" /\ last.rowcount = 1
    /\ DOMAIN tasks = {2}
    /\ assigned = {1, 2}

\* the priority strings of the inputs that equal low, mid, high ignoring case
LowInputs == {<<"l", "o", "w">>, <<"L", "O", "W">>}
MidInputs == {<<"M", "i", "d">>}
HighInputs == {<<"H", "i", "g", "h">>}

\* the level the specification gives a priority string
Level(priority) ==
    IF priority \in LowInputs THEN 1
    ELSE IF priority \in MidInputs THEN 2
    ELSE IF priority \in HighInputs THEN 3
    ELSE 2

\* C8: create stores level 1, 2, 3 for a priority string equal to low, mid,
\* high ignoring case and level 2 for any other string, without rejecting;
\* every stored priority is 1, 2 or 3.
C8_PriorityLevels ==
    /\ [](\A i \in DOMAIN tasks : tasks[i].priority \in {1, 2, 3})
    /\ [][\A title \in Titles, due_date \in DueInputs \ BadDueInputs,
             priority \in PriorityInputs, status \in FormStatusInputs :
             Add(title, due_date, priority, status)
             => /\ resp' = RedirectHome
                /\ \E i \in NewIds : tasks'[i].priority = Level(priority)]_vars

\* a create with priority LOW has just stored level 1 next to a task of
\* another level
C8_Witness ==
    /\ last.op = "add" /\ last.priority = <<"L", "O", "W">>
    /\ seq \in DOMAIN tasks
    /\ tasks[seq].priority = 1
    /\ \E i \in DOMAIN tasks : tasks[i].priority = 3

\* the weights as the specification tabulates them
StatusWeight(status) ==
    CASE status = "progress" -> 18
      [] status = "todo" -> 10
      [] status = "pending" -> 2
      [] status = "done" -> 0 - 9999
      [] OTHER -> 10

DueWeight(d) == IF d < 0 THEN 35 ELSE (IF 20 - d >= 0 THEN 20 - d ELSE 0)

\* days until due_date_str on the clock's date
DaysUntil(due_date_str) == ToOrdinal(strptime(due_date_str)) - ToOrdinal(clock.date)

\* the aging weight of the call's created_at
AgingWeight == age_w(sc_in.created_at, clock.date)

\* what is left of a score when the status, priority and aging weights of
\* the call are taken off: its due term
DueTerm(value) == value - StatusWeight(sc_in.status) - 8 * sc_in.priority - AgingWeight

\* the score of the call's task had it another due date
ScoreWithDue(due_date_str) ==
    score_task(due_date_str, sc_in.priority, sc_in.status, sc_in.created_at).value

\* C9: the score is status weight + due weight + 8 * priority level + aging
\* weight; a todo, HIGH task created today scores 53 when due tomorrow and
\* 69 when two days overdue.
C9_ScoreFormula ==
    sc_out.state = "returned" =>
        LET d == DaysUntil(sc_in.due_date_str)
            scenario == /\ sc_in.status = "todo"
                        /\ sc_in.priority = 3
                        /\ fromisoformat(sc_in.created_at) = clock.date
        IN  /\ sc_out.value = StatusWeight(sc_in.status) + DueWeight(d)
                              + 8 * sc_in.priority + AgingWeight
            /\ (scenario /\ d = 1) => sc_out.value = 53
            /\ (scenario /\ d = 0 - 2) => sc_out.value = 69

\* the call has scored a todo, HIGH task created today and due tomorrow
C9_Witness ==
    /\ sc_out.state = "returned"
    /\ sc_in.status = "todo" /\ sc_in.priority = 3
    /\ fromisoformat(sc_in.created_at) = clock.date
    /\ DaysUntil(sc_in.due_date_str) = 1
    /\ sc_out.value = 53

\* the due dates of the calls that parse
ParsedDues == {due \in ScoreDues : strptime(due) # ValueError}

\* C10: with status, priority and age fixed the score does not grow with d
\* over d >= 0; the due term is 35 for every d < 0, 20 for d = 0, and larger
\* for every overdue task than for every task that is not overdue.
C10_DueMonotone ==
    sc_out.state = "returned" =>
        LET d == DaysUntil(sc_in.due_date_str) IN
        /\ \A due \in ParsedDues :
              (0 <= d /\ d <= DaysUntil(due)) => ScoreWithDue(due) <= sc_out.value
        /\ d < 0 => DueTerm(sc_out.value) = 35
        /\ d = 0 => DueTerm(sc_out.value) = 20
        /\ \A due \in ParsedDues :
              (d < 0 /\ DaysUntil(due) >= 0)
              => DueTerm(sc_out.value) > DueTerm(ScoreWithDue(due))

\* the call has scored a task due today
C10_Witness ==
    /\ sc_out.state = "returned"
    /\ DaysUntil(sc_in.due_date_str) = 0
    /\ DueTerm(sc_out.value) = 20

---------------------------------------------------------------------------
(* The today ranking *)

\* days until the due date of a row, counted from the date the computation
\* of the ranking began
DaysUntilDue(r) == ToOrdinal(strptime(r.due_date)) - ToOrdinal(ft.began)

\* entry a = (score, row) ranks before entry b
RanksBefore(a, b) ==
    \/ a[1] > b[1]
    \/ a[1] = b[1] /\ DaysUntilDue(a[2]) < DaysUntilDue(b[2])
    \/ a[1] = b[1] /\ DaysUntilDue(a[2]) = DaysUntilDue(b[2])
                   /\ a[2].priority > b[2].priority
    \/ a[1] = b[1] /\ DaysUntilDue(a[2]) = DaysUntilDue(b[2])
                   /\ a[2].priority = b[2].priority /\ a[2].id < b[2].id

\* a sequence in the reverse order
Reverse(s) == [k \in 1..Len(s) |-> s[Len(s) + 1 - k]]

\* C11: of any two entries of a returned ranking the earlier one has the
\* higher score, or the same score and fewer days until due, or these the same
\* and the higher priority, or these the same and the smaller id; so no two
\* entries compare equal, and the same tasks taken in the opposite order give
\* the same ranking.
C11_RankingTotallyOrdered ==
    ft.pc = "done" =>
        /\ \A i \in 1..Len(ft.out) : \A j \in (i + 1)..Len(ft.out) :
                /\ RanksBefore(ft.out[i], ft.out[j])
                /\ ~RanksBefore(ft.out[j], ft.out[i])
        /\ ft.out = SliceTo(Entries(SortByKey(Reverse(
                         Keyed(ft.rows, ft.scores, ft.keys)))), ft.top)

\* a ranking of two tasks of one score, the second created with fewer days
\* until due and ranked first
C11_Witness ==
    /\ ft.pc = "done"
    /\ Len(ft.out) = 2
    /\ ft.out[1][1] = ft.out[2][1]
    /\ DaysUntilDue(ft.out[1][2]) < DaysUntilDue(ft.out[2][2])
    /\ ft.out[1][2].id > ft.out[2][2].id

\* the full ranking of the rows fetched: the sorted list before it is cut
FullRanking == Entries(SortByKey(Keyed(ft.rows, ft.scores, ft.keys)))

\* C12: for every limit, a returned ranking is a prefix of the full ranking
\* and has at most limit entries (none when the limit is zero or negative),
\* and a limit not below the number of open tasks gives the full ranking.
C12_LimitIsPrefix ==
    ft.pc = "done" =>
        /\ Len(ft.out) <= Len(FullRanking)
        /\ ft.out = SubSeq(FullRanking, 1, Len(ft.out))
        /\ Len(ft.out) <= (IF ft.top > 0 THEN ft.top ELSE 0)
        /\ ft.top >= Len(ft.rows) => ft.out = FullRanking

\* the ids of the tasks of a ranking
RankedIds == {ft.out[k][2].id : k \in 1..Len(ft.out)}

\* the ids of the open tasks of the store
OpenIds == {i \in DOMAIN tasks : tasks[i].status # "done"}

\* C13: a returned ranking holds only tasks that are in the store and not
\* done, each once, and all of them when the limit is not below their number:
\* a task moved to done is not in it, a task moved out of done is.
C13_RankingIsOpenTasks ==
    ft.pc = "done" =>
        /\ \A k \in 1..Len(ft.out) :
                /\ ft.out[k][2].id \in OpenIds
                /\ ft.out[k][2] = Row(ft.out[k][2].id)
        /\ Cardinality(RankedIds) = Len(ft.out)
        /\ ft.top >= Cardinality(OpenIds) => RankedIds = OpenIds

\* a ranking computed after a task was moved from done to progress: that
\* task, the only one in progress, is in it, and a task moved to done is not
C13_Witness ==
    /\ ft.pc = "done"
    /\ last.op = "move" /\ last.was = "done" /\ last.status = "progress"
    /\ Cardinality({i \in DOMAIN tasks : tasks[i].status = "progress"}) = 1
    /\ \E i \in RankedIds : tasks[i].status = "progress"
    /\ \E i \in DOMAIN tasks : tasks[i].status = "done" /\ i \notin RankedIds

\* the dates from a to b
RECURSIVE DatesBetween(_, _)
DatesBetween(a, b) ==
    IF ToOrdinal(a) > ToOrdinal(b) THEN {} ELSE {a} \cup DatesBetween(NextDay(a), b)

\* the score of a row against the reference date ref
ScoreOn(r, ref) ==
    status_w(r.status) + due_w(ToOrdinal(strptime(r.due_date)) - ToOrdinal(ref))
    + pri_w(r.priority) + age_w(r.created_at, ref)

\* the ranking of rows under limit top with every score and every days-until-due
\* key taken against the one reference date ref
RankingOn(rows, ref, top) ==
    SliceTo(Entries(SortByKey(Keyed(
                rows,
                [k \in 1..Len(rows) |-> ScoreOn(rows[k], ref)],
                [k \in 1..Len(rows) |->
                    ToOrdinal(strptime(rows[k].due_date)) - ToOrdinal(ref)]))),
            top)

\* C14: a returned ranking is the ranking of the fetched rows against one
\* reference date, a date the clock showed while it was computed; so it is
\* what a computation on a clock standing still at that date returns.
C14_OneReferenceDate ==
    ft.pc = "done" =>
        \E ref \in DatesBetween(ft.began, today) :
            ft.out = RankingOn(ft.rows, ref, ft.top)

---------------------------------------------------------------------------
(* Concurrent writes *)

\* the table after the operation of call is executed on table store as a
\* whole: create adds one task under the next id, delete removes the task
\* of the id, setStatus sets status, done and done_at of the task of the id
SerialEffect(store, call) ==
    CASE call.op = "add" ->
            [i \in DOMAIN store \cup {seq + 1} |->
                IF i \in DOMAIN store THEN store[i]
                ELSE [title |-> call.title, due_date |-> call.due_date,
                      priority |-> call.p, created_at |-> call.now, done |-> 0,
                      done_at |-> Null, status |-> call.st]]
      [] call.op = "delete" ->
            [i \in DOMAIN store \ {call.task_id} |-> store[i]]
      [] call.op = "move" ->
            [i \in DOMAIN store |->
                IF i # call.task_id THEN store[i]
                ELSE [store[i] EXCEPT
                        !.status = call.st,
                        !.done = IF call.st = "done" THEN 1 ELSE 0,
                        !.done_at = IF call.st = "done" THEN call.now ELSE Null]]

\* C15: with callers racing, every step that changes the table is the whole
\* operation of one caller that thereby ends, executed on the table as it is;
\* so the table is at any time the result of the ended operations in the
\* order they took effect, and it never holds a task whose status was set
\* without done and done_at.
C15_WritesAreAtomic ==
    [][ /\ tasks' # tasks =>
            \E c \in Callers :
                /\ cx[c].pc = "with" /\ cx'[c] = IdleCall
                /\ \A d \in Callers \ {c} : cx'[d] = cx[d]
                /\ tasks' = SerialEffect(tasks, cx[c])
        /\ \A i \in DOMAIN tasks' :
                /\ (tasks'[i].done = 1) <=> (tasks'[i].status = "done")
                /\ (tasks'[i].done_at # Null) <=> (tasks'[i].status = "done") ]_vars

\* two callers in move_task on the same task of the store, one to done and
\* one to todo, neither having written yet
C15_Witness ==
    /\ cx["a"].pc = "with" /\ cx["a"].op = "move" /\ cx["a"].st = "done"
    /\ cx["b"].pc = "with" /\ cx["b"].op = "move" /\ cx["b"].st = "todo"
    /\ cx["a"].task_id = cx["b"].task_id
    /\ cx["a"].task_id \in DOMAIN tasks
    /\ tasks[cx["a"].task_id].status = "done"

---------------------------------------------------------------------------
(* The board *)

\* the ids of the rows of a column
ColumnIds(col) == {col[j].id : j \in 1..Len(col)}

RECURSIVE SumOf(_)
SumOf(s) == IF s = <<>> THEN 0 ELSE Head(s) + SumOf(Tail(s))

\* the columns board with their counts group the tasks of table store: every
\* task is once in the column of its status and in no other column, and the
\* counts sum to the number of tasks
Groups(board, counts, store) ==
    /\ \A i \in DOMAIN store : \A k \in 1..Len(board) :
            i \in ColumnIds(board[k]) <=> STATUSES[k] = store[i].status
    /\ \A k \in 1..Len(board) :
            /\ ColumnIds(board[k]) \subseteq DOMAIN store
            /\ Cardinality(ColumnIds(board[k])) = Len(board[k])
    /\ SumOf(counts) = Cardinality(DOMAIN store)

\* C16 as stated: the board of a rendering, once its four columns are read,
\* groups the tasks of the store, whatever another caller wrote between the
\* reads.
C16_BoardGroupsStore ==
    ix.pc = "today" => Groups(ix.board, ix.counts, tasks)

\* the four columns as read from the table in one state
ColumnsNow == [k \in 1..Len(STATUSES) |-> fetch_tasks_by_status(STATUSES[k])]

\* C16 amended: every column of the board holds exactly the tasks that had
\* its status when it was read, each once, with their number as its count;
\* and four columns read from one state of the table, no write between the
\* reads, group the tasks of the store.
C16_ColumnsAreSnapshots ==
    /\ [](Groups(ColumnsNow, [k \in 1..Len(STATUSES) |-> Len(ColumnsNow[k])], tasks))
    /\ [][ Len(ix'.board) = Len(ix.board) + 1 =>
            LET k == Len(ix'.board)
                col == ix'.board[k]
            IN  /\ ColumnIds(col) = {i \in DOMAIN tasks : tasks[i].status = STATUSES[k]}
                /\ Cardinality(ColumnIds(col)) = Len(col)
                /\ \A j \in 1..Len(col) : col[j] = Row(col[j].id)
                /\ ix'.counts[k] = Len(col)
                /\ SubSeq(ix'.board, 1, k - 1) = ix.board ]_vars

\* a board read in full with a task in its first and a task in its last
\* column, grouping the store
C16_Witness ==
    /\ ix.pc = "today"
    /\ Len(ix.board[1]) > 0
    /\ Len(ix.board[4]) > 0
    /\ Groups(ix.board, ix.counts, tasks)

---------------------------------------------------------------------------
(* What the writes leave alone *)

\* the fields of a task that are written once, when it is created
WriteOnce(row) ==
    [title |-> row.title, due_date |-> row.due_date, priority |-> row.priority,
     created_at |-> row.created_at]

\* C17: setStatus(id, s) adds and removes no task, changes no other task and
\* leaves title, due_date, priority and created_at of the task of the id;
\* delete(id) removes that task alone and changes no other; create changes no
\* task there is; so in every step a task that stays in the store keeps its
\* title, due_date, priority and created_at.
C17_WritesKeepTheRest ==
    [][ /\ \A task_id \in IdInputs, status \in StatusInputs :
            Move(task_id, status) =>
                /\ DOMAIN tasks' = DOMAIN tasks
                /\ \A i \in DOMAIN tasks \ {task_id} : tasks'[i] = tasks[i]
                /\ task_id \in DOMAIN tasks =>
                        WriteOnce(tasks'[task_id]) = WriteOnce(tasks[task_id])
        /\ \A task_id \in IdInputs :
            Del(task_id) =>
                /\ DOMAIN tasks' = DOMAIN tasks \ {task_id}
                /\ \A i \in DOMAIN tasks' : tasks'[i] = tasks[i]
        /\ last'.op = "add" /\ (last' # last \/ tasks' # tasks) =>
                \A i \in DOMAIN tasks : i \in DOMAIN tasks' /\ tasks'[i] = tasks[i]
        /\ \A i \in DOMAIN tasks \cap DOMAIN tasks' :
                WriteOnce(tasks'[i]) = WriteOnce(tasks[i]) ]_vars

\* a task that was done and has just been moved on, next to another task
C17_Witness ==
    /\ last.op = "move" /\ last.rowcount = 1 /\ last.was = "done"
    /\ last.status = "progress"
    /\ Cardinality(DOMAIN tasks) = 2
    /\ \E i \in DOMAIN tasks : tasks[i].status = "progress"

\* row a comes before row b by due date as a date of the calendar, then by
\* priority, the higher first, then by id
CalendarBefore(a, b) ==
    LET da == ToOrdinal(strptime(a.due_date))
        db == ToOrdinal(strptime(b.due_date))
    IN  \/ da < db
        \/ da = db /\ a.priority > b.priority
        \/ da = db /\ a.priority = b.priority /\ a.id < b.id

\* C18: a column read from a store built by create holds exactly the tasks
\* of its status, each once, ordered by due date as a calendar date, then by
\* priority descending, then by id ascending.
C18_ColumnInCalendarOrder ==
    \A k \in 1..Len(ix.board) :
        LET col == ix.board[k] IN
        /\ ColumnIds(col) = {i \in DOMAIN tasks : tasks[i].status = STATUSES[k]}
        /\ Cardinality(ColumnIds(col)) = Len(col)
        /\ \A i \in 1..Len(col) : \A j \in (i + 1)..Len(col) :
                CalendarBefore(col[i], col[j])

---------------------------------------------------------------------------
(* The aging weight *)

\* what is left of the score of a row when its status, due and priority
\* weights are taken off: its aging weight
AgingPart(score, r) ==
    score - StatusWeight(r.status) - DueWeight(DaysUntil(r.due_date)) - 8 * r.priority

\* days from the creation date of a row to the clock's date
AgeDays(r) == ToOrdinal(clock.date) - ToOrdinal(fromisoformat(r.created_at))

\* C19: the aging weight in the score of every row is min(10, max(0, days
\* since its creation date)): 0 for a row created today or later, the days
\* below ten, 10 from the tenth day on; it is 0 for a created_at that is no
\* timestamp, and such a row is scored and ranked like any other: no call
\* raises, and the ranking holds every task.
C19_AgingWeightClamped ==
    /\ ft.pc # "raised"
    /\ ft.pc = "done" => Len(ft.out) = Cardinality(DOMAIN tasks)
    /\ \A k \in 1..Len(ft.scores) :
            LET r == ft.rows[k]
                a == AgingPart(ft.scores[k], r)
            IN  /\ a \in 0..10
                /\ fromisoformat(r.created_at) = ValueError => a = 0
                /\ fromisoformat(r.created_at) # ValueError =>
                        /\ AgeDays(r) <= 0 => a = 0
                        /\ AgeDays(r) \in 1..9 => a = AgeDays(r)
                        /\ AgeDays(r) >= 10 => a = 10

\* a ranking of two tasks, one whose created_at is no timestamp and one
\* created more than ten days ago
C19_Witness ==
    /\ ft.pc = "done"
    /\ Len(ft.out) = 2
    /\ \E k \in 1..2 : fromisoformat(ft.rows[k].created_at) = ValueError
    /\ \E k \in 1..2 : /\ fromisoformat(ft.rows[k].created_at) # ValueError
                        /\ AgeDays(ft.rows[k]) > 10
                        /\ AgingPart(ft.scores[k], ft.rows[k]) = 10

====
